---- MODULE Spec2Model ----
(***************************************************************************)
(* Model of github.com/ndsky1003/buffer.                                   *)
(*                                                                         *)
(* EMA-calibrated pool (Pool[T], New, Get, Put, calibrate) with the two    *)
(* adapter triples of api.go (NewBufferPool, NewBytePool).  Every atomic   *)
(* operation of Put and calibrate is one step of the calling goroutine, so *)
(* the interleavings of concurrent Get/Put are the behaviours of Spec.     *)
(*                                                                         *)
(* Sizes are bytes.  Floating-point factors are kept as scaled integers:   *)
(* emaUpFactor and emaDownFactor in tenths, premiumFactor and maxPercent   *)
(* in hundredths.                                                          *)
(***************************************************************************)
EXTENDS Integers, Sequences, FiniteSets, TLC

----------------------------------------------------------------------------
(* Bounds of the model *)

\* total number of Put calls with cap > 0 that may be started
MaxPuts == 2
\* total number of objects makeFunc may create
MaxObjs == 2

\* the goroutines calling Get and Put
Threads == {"g1", "g2"}

\* lengths a caller may leave in a buffer before releasing it
Useds == {0, 3, 6, 12}

----------------------------------------------------------------------------
(* option.go *)

\* a nil *uint64 / *float64 field of Option
Absent == -1

Options == [CalibratePeriod |-> Absent, MaxPercent |-> Absent, MinSize |-> Absent,
            MaxSize |-> Absent, CalibratedSz |-> Absent]

SetCalibratePeriod(o, v) == [o EXCEPT !.CalibratePeriod = v]
SetMaxPercent(o, v) == [o EXCEPT !.MaxPercent = v]
SetMinSize(o, v) == [o EXCEPT !.MinSize = v]
SetMaxSize(o, v) == [o EXCEPT !.MaxSize = v]
SetCalibratedSz(o, v) == [o EXCEPT !.CalibratedSz = v]

\* a nil *Option
NilOption == [nil |-> TRUE]

\* faulty variant: a field the receiver already holds is kept
merge_keep(o, delta) ==
    IF delta = NilOption THEN o
    ELSE [f \in DOMAIN o |-> IF o[f] # Absent THEN o[f] ELSE delta[f]]

merge(o, delta) ==
    IF delta = NilOption THEN o
    ELSE [f \in DOMAIN o |-> IF delta[f] # Absent THEN delta[f] ELSE o[f]]

RECURSIVE Merge(_, _)
Merge(o, opts) ==
    IF opts = <<>> THEN o ELSE Merge(merge(o, Head(opts)), Tail(opts))

----------------------------------------------------------------------------
(* Defaults applied by New *)

DefaultMinSize == 512
DefaultMaxSize == 67108864
DefaultCalibratePeriod == 1000
DefaultMaxPercent == 200
DefaultCalibratedSz == 1024

DefaultOption ==
    SetCalibratedSz(SetMaxPercent(SetCalibratePeriod(SetMaxSize(SetMinSize(Options,
        DefaultMinSize), DefaultMaxSize), DefaultCalibratePeriod), DefaultMaxPercent),
        DefaultCalibratedSz)

\* the pools the callers build: NewBufferPool(opts...) / NewBytePool(opts...)
OptGrow == [Options EXCEPT !.MinSize = 4, !.MaxSize = 16, !.CalibratePeriod = 2,
                           !.MaxPercent = 150, !.CalibratedSz = 8]
OptTight == [Options EXCEPT !.MinSize = 4, !.MaxSize = 16, !.CalibratePeriod = 1,
                            !.MaxPercent = 100, !.CalibratedSz = 8]
OptAboveMax == [Options EXCEPT !.MinSize = 4, !.MaxSize = 8, !.CalibratePeriod = 2,
                               !.CalibratedSz = 20]
OptInverted == [Options EXCEPT !.MinSize = 8, !.MaxSize = 4, !.CalibratePeriod = 1,
                               !.CalibratedSz = 2]
OptZero == [Options EXCEPT !.MinSize = 0, !.MaxSize = 16, !.CalibratePeriod = 1,
                           !.MaxPercent = 100, !.CalibratedSz = 0]
OptFrozen == [Options EXCEPT !.MinSize = 4, !.MaxSize = 4, !.CalibratedSz = 4]
OptPeriod == [Options EXCEPT !.CalibratePeriod = 3, !.MaxPercent = 100]
OptWarm == [Options EXCEPT !.CalibratePeriod = 1, !.CalibratedSz = 8]

Pools ==
    { <<"buffer", <<>>>>,
      <<"bytes", <<OptGrow>>>>,
      <<"buffer", <<OptTight>>>>,
      <<"buffer", <<OptAboveMax>>>>,
      <<"bytes", <<OptInverted>>>>,
      <<"bytes", <<OptZero>>>>,
      <<"buffer", <<NilOption, OptFrozen, OptPeriod>>>>,
      <<"bytes", <<OptFrozen, OptWarm>>>> }

----------------------------------------------------------------------------
(* Payload T: a *bytes.Buffer or a []byte with its length and capacity *)

\* nil *bytes.Buffer, nil []byte
NilT == [id |-> 0, len |-> 0, cap |-> 0]
\* a value the caller built itself with no storage: &bytes.Buffer{}, []byte{}
EmptyT == [id |-> -1, len |-> 0, cap |-> 0]
\* "no value" in a goroutine's hand
NoT == [id |-> -2, len |-> 0, cap |-> 0]

VARIABLES
    kind,             \* which constructor of api.go built the pool
    opt,              \* the merged Option inside New
    minSize, maxSize, calibratePeriod, maxPercent,   \* Pool config fields
    calls, maxUsage, calibratedSz,                   \* Pool atomics
    idle,             \* contents of p.pool (sync.Pool): set of T
    nextId,           \* identity given to the next T made by makeFunc
    panicked,         \* a goroutine hit a nil dereference: the process is gone
    pc,               \* per goroutine: where it is
    b,                \* per goroutine: the T it holds / is releasing
    currentSz, oldMax, newCalls, newMax, nextSz,     \* per goroutine locals
    putsDone,         \* number of Put calls with cap > 0 that returned
    calibrations,     \* number of calibrate() invocations
    overlapped,       \* two Put calls were in progress at the same time
    unreadPeak,       \* last value a Put stored in maxUsage that no calibrate loaded
    discarded,        \* ids of the T's Put dropped by the smart discard
    usedSeen,         \* some Put saw used > 0
    cycle             \* pool state at the Get of an uninterrupted Get+Put pair

\* the caller of the EMA pool and the other parts of the package
VARIABLES
    traffic,          \* the scripted caller driving the pool, NoTraffic: any caller
    probeUsed,        \* the bytes the probing caller writes per cycle, else 0
    mergeCall         \* a call of Option.Merge: receiver, arguments, result

\* one shard of the sharded pool (AdaptivePool) and the clock it reads
VARIABLES
    minIdle, maxIdle, maxIdleLimit,                  \* AdaptivePool config fields
    shardIdle,        \* adaptiveShard.idle: sequence of idleObj, top of stack last
    activeCount, hitCount, getCount, currentMax, lastScale,   \* adaptiveShard
    now,              \* time.Now(), in seconds since the pool was built
    shardMade,        \* number of T's newFunc has made
    shardOut,         \* the T's callers hold
    shardDropped,     \* the T's the shard let go of
    lastGet,          \* what the last Get did
    shardForeign      \* number of T's got from another shard and put to this one

\* the spin lock (SpinLock) and the goroutines that take it
VARIABLES
    sl,               \* the lock word: 0 free, 1 held
    lockPc,           \* where each goroutine is: "out", "spin", "retry", "in"
    lockI             \* the loop variable i of each goroutine's Lock, 0 outside it

\* the first version of the package: *buffer around bytes.Buffer, one global
\* sync.Pool, and the memory the byte slices live in
VARIABLES
    legacyMem,        \* backing arrays by number, << >> while not allocated
    legacyBuf,        \* *buffer by number: its backing array and its length
    legacyPool,       \* the *buffer's the global pool holds
    legacyHeld,       \* the *buffer each user holds, 0 for none
    legacySlices      \* the slices Bytes() has returned, as they were returned

\* the ring pool (AdaptiveRingPool) and the goroutines that use it
VARIABLES
    ringMu,           \* p.mu: the goroutine inside Put's critical section, else "free"
    ringBuf,          \* p.buffer: 1 where a Put stored a T, 0 for the zero value
    head, tail, count,
    minCap, maxCap, curCap,
    ringHit, ringGet, \* p.hitCount, p.getCount
    ringPc,           \* where each goroutine is: "idle", "counted", "scale"
    total,            \* autoScale's local of each goroutine
    ringGets,         \* number of Get calls started
    ringPanic      \* where an index ran out of range: "none", "Put" or "resize"

cfgVars == <<kind, opt, minSize, maxSize, calibratePeriod, maxPercent>>
atomVars == <<calls, maxUsage, calibratedSz>>
localVars == <<currentSz, oldMax, newCalls, newMax, nextSz>>
histVars == <<putsDone, calibrations, overlapped, unreadPeak, discarded, usedSeen>>
shardVars == <<minIdle, maxIdle, maxIdleLimit, shardIdle, activeCount, hitCount,
               getCount, currentMax, lastScale, now, shardMade, shardOut,
               shardDropped, lastGet, shardForeign>>
lockVars == <<sl, lockPc, lockI>>
legacyVars == <<legacyMem, legacyBuf, legacyPool, legacyHeld, legacySlices>>
\* what no step of the EMA pool touches
scriptVars == <<traffic, probeUsed>>
ringVars == <<ringMu, ringBuf, head, tail, count, minCap, maxCap, curCap, ringHit,
              ringGet, ringPc, total, ringGets, ringPanic>>
apartVars == <<scriptVars, mergeCall, shardVars, lockVars, legacyVars, ringVars>>
emaVars == <<cfgVars, atomVars, idle, nextId, panicked, pc, b, localVars, histVars, cycle>>
vars == <<emaVars, apartVars>>

Max(x, y) == IF x >= y THEN x ELSE y
Min(x, y) == IF x <= y THEN x ELSE y

----------------------------------------------------------------------------
(* Scripted callers: one goroutine that runs Get, Write(used bytes), Put in a
   loop, as the calibration tests of buffer_test.go do *)

NoTraffic == "none"

\* the pool the scripted callers build
OptTraffic == [Options EXCEPT !.MinSize = 512, !.MaxSize = 65536, !.CalibratePeriod = 100,
                              !.MaxPercent = 150, !.CalibratedSz = 1024]

\* phases of a script: n cycles that each leave used bytes in the buffer
RampScript == << [n |-> 200, used |-> 4096] >>
CooldownScript == << [n |-> 200, used |-> 8192], [n |-> 500, used |-> 1024] >>
SpikeScript == << [n |-> 200, used |-> 4096], [n |-> 1, used |-> 32768],
                  [n |-> 50, used |-> 4096] >>

Traffics == {"ramp", "cooldown", "spike"}

\* the probing caller: ProbeLen cycles with the same number of bytes, on a
\* pool that calibrates at every Put
ProbeLen == 2
ProbeSizes == 4..64
ProbeUseds == 1..66
OptProbe(sz) == [Options EXCEPT !.MinSize = 4, !.MaxSize = 64, !.CalibratePeriod = 1,
                                !.CalibratedSz = sz]

Script(tr) ==
    IF tr = "probe" THEN << [n |-> ProbeLen, used |-> probeUsed] >>
    ELSE IF tr = "ramp" THEN RampScript
    ELSE IF tr = "cooldown" THEN CooldownScript
    ELSE IF tr = "spike" THEN SpikeScript
    ELSE << >>

RECURSIVE ScriptLen(_)
ScriptLen(sc) == IF sc = << >> THEN 0 ELSE Head(sc).n + ScriptLen(Tail(sc))

\* bytes written in the i-th cycle of script sc (i >= 1)
RECURSIVE ScriptUsed(_, _)
ScriptUsed(sc, i) ==
    IF sc = << >> THEN 0
    ELSE IF i <= Head(sc).n THEN Head(sc).used
    ELSE ScriptUsed(Tail(sc), i - Head(sc).n)

\* how many Put calls with cap > 0 may be started, how many T's may be made
PutLimit == IF traffic = NoTraffic THEN MaxPuts ELSE ScriptLen(Script(traffic))
ObjLimit == IF traffic = NoTraffic THEN MaxObjs ELSE ScriptLen(Script(traffic))

----------------------------------------------------------------------------
(* api.go: the adapter triples *)

makeFunc(k, size, i) == [id |-> i, len |-> 0, cap |-> size]

\* the value resetFunc returns: the buffer after Reset(), the slice b[:0]
resetFunc(k, t) == [t EXCEPT !.len = 0]

\* the argument after resetFunc returned: Reset() empties a *bytes.Buffer in
\* place, b[:0] is a new slice header and leaves the caller's slice as it was
resetArg(k, t) == IF k = "buffer" THEN resetFunc(k, t) ELSE t

\* b.Len()/b.Cap() dereference the receiver; len/cap of a nil slice are 0
statPanics(k, t) == k = "buffer" /\ t = NilT

\* (used, cap)
statFunc(k, t) == <<t.len, t.cap>>

----------------------------------------------------------------------------
(* calibrate: the arithmetic of lines 203-232 *)

emaUpFactor == 4
emaDownFactor == 9
premiumFactor == 105

\* Pairs <<oldSz, newMax>> with newMax > oldSz on which the float64 sum
\* float64(oldSz)*0.4 + float64(newMax)*0.6 rounds just below the exact
\* integer value, so that the uint64 conversion yields one less than the
\* exact quotient (IEEE-754 double, unfused multiply and add; sizes up to 64).
\* The falling branch and the premium have no such pair for sizes up to 1100.
Float64Short ==
    { <<1, 6>>, <<1, 31>>, <<1, 36>>, <<1, 41>>, <<1, 46>>, <<1, 51>>,
      <<2, 12>>, <<2, 57>>, <<2, 62>>, <<3, 48>>, <<4, 24>>,
      <<7, 57>>, <<7, 62>>, <<8, 48>> }

\* uint64(float64(oldSz)*emaUpFactor + float64(newMax)*(1-emaUpFactor))
emaUp(oldSz, nm) ==
    ((emaUpFactor * oldSz + (10 - emaUpFactor) * nm) \div 10)
        - (IF <<oldSz, nm>> \in Float64Short THEN 1 ELSE 0)

\* faulty variant: the falling branch weighs the history like the rising one
emaDown_fast(oldSz, nm) == (emaUpFactor * oldSz + (10 - emaUpFactor) * nm) \div 10

\* uint64(float64(oldSz)*emaDownFactor + float64(newMax)*(1-emaDownFactor))
emaDown(oldSz, nm) ==
    (emaDownFactor * oldSz + (10 - emaDownFactor) * nm) \div 10

\* faulty variant: no premium
premium_off(sz) == sz

\* uint64(float64(nextSz) * premiumFactor)
premium(sz) == (sz * premiumFactor) \div 100

\* faulty variant: min and max exchanged in the bounds check
clampMax_swapped(mn, mx, nm) == Max(Min(mn, nm), mx)

\* newMax after the bounds check of lines 204-205
clampMax(mn, mx, nm) == Min(Max(mn, nm), mx)

\* nextSz as stored by line 235, from oldSz and the clamped newMax
calibrateNext(mn, mx, oldSz, nm) ==
    LET ema == IF nm > oldSz THEN emaUp(oldSz, nm) ELSE emaDown(oldSz, nm)
        withPremium == IF nm > oldSz THEN premium(ema) ELSE ema
    IN  Min(Max(mn, withPremium), mx)

\* faulty variant: the default factor 2.0 instead of the configured maxPercent
discardLimit_fixed(sz, mp) == sz * 2

\* uint64(float64(currentSz) * p.maxPercent)
discardLimit(sz, mp) == (sz * mp) \div 100

\* faulty variant: the cap == 0 test is missing
nothingToPool_never(capVal) == FALSE

\* line 129: stat reports nothing to pool
nothingToPool(capVal) == capVal = 0

\* faulty variant: > instead of >=
reachedPeriod_gt(nc, period) == nc > period

\* faulty variant: the period test is missing, every tick tries the reset
reachedPeriod_always(nc, period) == TRUE

\* line 170: the tick that ends a calibration window
reachedPeriod(nc, period) == nc >= period

\* faulty variant: the sampled update of maxUsage is missing
sampleNow_never(c) == FALSE

\* line 150: the low four bits of calls are zero
sampleNow(c) == c % 16 = 0

\* faulty variant: the newMax == 0 return is missing
idleWindow_never(nm) == FALSE

\* line 198: no usage was recorded in the window
idleWindow(nm) == nm = 0

----------------------------------------------------------------------------
(* New *)

NoCycle == [g |-> "none"]

PutPcs == {"sample", "loadMax", "casMax", "tick", "casCalls",
           "calLoad", "calReset", "calLoadSz", "calStore", "finish"}
CalPcs == {"calLoad", "calReset", "calLoadSz", "calStore"}
\* positions after the atomic add of line 169
TickedPcs == {"casCalls", "calLoad", "calReset", "calLoadSz", "calStore", "finish"}

New(k, opts) ==
    LET o == Merge(DefaultOption, opts) IN
    /\ kind = k
    /\ opt = o
    /\ minSize = o.MinSize
    /\ maxSize = o.MaxSize
    /\ calibratePeriod = o.CalibratePeriod
    /\ maxPercent = o.MaxPercent
    /\ calibratedSz = Max(o.MinSize, o.CalibratedSz)
    /\ calls = 0
    /\ maxUsage = 0
    /\ idle = {}

\* no goroutine has called Get or Put yet
EmaStart ==
    /\ nextId = 1
    /\ panicked = FALSE
    /\ pc = [t \in Threads |-> "idle"]
    /\ b = [t \in Threads |-> NoT]
    /\ currentSz = [t \in Threads |-> 0]
    /\ oldMax = [t \in Threads |-> 0]
    /\ newCalls = [t \in Threads |-> 0]
    /\ newMax = [t \in Threads |-> 0]
    /\ nextSz = [t \in Threads |-> 0]
    /\ putsDone = 0
    /\ calibrations = 0
    /\ overlapped = FALSE
    /\ unreadPeak = 0
    /\ discarded = {}
    /\ usedSeen = FALSE
    /\ cycle = NoCycle

\* the call recv.Merge(others...) after it returned: i entries were merged
\* into o, the copy of the receiver the method works on and returns
MergeCall(recv, others) ==
    [recv |-> recv, others |-> others, i |-> Len(others), o |-> Merge(recv, others),
     done |-> TRUE]

\* no EMA pool was built
NoEma ==
    /\ opt = Options
    /\ minSize = 0 /\ maxSize = 0 /\ calibratePeriod = 0 /\ maxPercent = 0
    /\ calibratedSz = 0 /\ calls = 0 /\ maxUsage = 0
    /\ idle = {}
    /\ traffic = NoTraffic
    /\ probeUsed = 0

\* no pool of either engine was built
NoPool == kind = "none" /\ NoEma

\* no sharded pool was built
NoShard ==
    /\ minIdle = 0 /\ maxIdle = 0 /\ maxIdleLimit = 0
    /\ shardIdle = << >>
    /\ activeCount = 0 /\ hitCount = 0 /\ getCount = 0
    /\ currentMax = 0 /\ lastScale = 0
    /\ now = 0
    /\ shardMade = 0 /\ shardOut = {} /\ shardDropped = {}
    /\ lastGet = [got |-> "none"]
    /\ shardForeign = 0

\* no goroutine has called Lock
NoLock ==
    /\ sl = 0
    /\ lockPc = [t \in Threads |-> "out"]
    /\ lockI = [t \in Threads |-> 0]

\* bytes a user may write
LegacyBytes == {1, 2}
\* *buffer's the pool's New may make
MaxLegacyBufs == 1
\* capacity of a *buffer's backing array
MaxLegacyLen == 2
\* calls of Bytes()
MaxSlices == 2

\* backing arrays: one per *buffer, then one per call of Bytes()
LegacyStores == 1..(MaxLegacyBufs + MaxSlices)

\* package initialisation: the pool is empty, nothing is allocated
NoLegacy ==
    /\ legacyMem = [m \in LegacyStores |-> << >>]
    /\ legacyBuf = << >>
    /\ legacyPool = {}
    /\ legacyHeld = [t \in Threads |-> 0]
    /\ legacySlices = << >>

\* no ring pool was built
NoRing ==
    /\ ringMu = "free"
    /\ ringBuf = << >>
    /\ head = 0 /\ tail = 0 /\ count = 0
    /\ minCap = 0 /\ maxCap = 0 /\ curCap = 0
    /\ ringHit = 0 /\ ringGet = 0
    /\ ringPc = [t \in Threads |-> "idle"]
    /\ total = [t \in Threads |-> 0]
    /\ ringGets = 0
    /\ ringPanic = "none"

Init ==
    /\ \E pool \in Pools :
          /\ New(pool[1], pool[2])
          /\ mergeCall = MergeCall(DefaultOption, pool[2])
    /\ EmaStart
    /\ traffic = NoTraffic
    /\ probeUsed = 0
    /\ NoShard
    /\ NoLock
    /\ NoLegacy
    /\ NoRing

\* the snapshot survives a step of the goroutine that took it, nothing else
KeepCycle(t) == cycle' = IF cycle.g = t THEN cycle ELSE NoCycle

putsStarted == putsDone + Cardinality({t \in Threads : pc[t] \in PutPcs})

----------------------------------------------------------------------------
(* Get, and what the caller does with the T it got *)

\* p.pool.Get(): some T of the pool, or p.pool.New() when it finds none.
\* sync.Pool may lose what it holds at any time (per-P caches, garbage
\* collection), so a miss is possible whatever the pool contains.  A scripted
\* caller is one goroutine with no collection between its cycles: its Get
\* finds what its last Put left.
\* faulty variant: the pool keeps what it hands out
taken_kept(S, o) == S

\* sync.Pool.Get: what the pool holds after handing out o
taken(S, o) == S \ {o}

Get(t) ==
    /\ kind \in {"buffer", "bytes"}
    /\ ~panicked
    /\ pc[t] = "idle"
    /\ \/ \E o \in idle :
            /\ b' = [b EXCEPT ![t] = o]
            /\ idle' = taken(idle, o)
            /\ UNCHANGED nextId
       \/ /\ nextId <= ObjLimit
          /\ traffic = NoTraffic \/ idle = {}
          /\ b' = [b EXCEPT ![t] = makeFunc(kind, calibratedSz, nextId)]
          /\ nextId' = nextId + 1
          /\ UNCHANGED idle
    /\ pc' = [pc EXCEPT ![t] = "held"]
    /\ cycle' = [g |-> t, idle |-> idle, calibratedSz |-> calibratedSz,
                 calls |-> calls, maxUsage |-> maxUsage]
    /\ UNCHANGED <<apartVars, cfgVars, atomVars, panicked, localVars, histVars>>

----------------------------------------------------------------------------
(* Put *)

\* the locals used and capVal of line 128, for the T goroutine t is releasing
used(t) == statFunc(kind, b[t])[1]
capVal(t) == statFunc(kind, b[t])[2]

\* the T a caller holds after using it (buf.Write, append): the length is u
\* and the storage has grown when u did not fit; u = len is the untouched T
written(t, u) == [t EXCEPT !.len = u, !.cap = Max(@, u)]

\* what a caller may hand to Put: the T it holds, written to or as it is, or
\* nil / an empty T of its own
PutInputs == {<<"written", u>> : u \in Useds} \cup {<<"asis", 0>>, <<"nil", 0>>, <<"empty", 0>>}

PutArg(t, in) ==
    IF in[1] = "written" THEN written(b[t], in[2])
    ELSE IF in[1] = "asis" THEN b[t]
    ELSE IF in[1] = "nil" THEN NilT
    ELSE EmptyT

\* lines 120-153 up to the first access after the load of calibratedSz: stat,
\* the cap == 0 return, the load, and the decision whether to record
PutBegin(t, in) ==
    LET x == PutArg(t, in) IN
    /\ kind \in {"buffer", "bytes"}
    /\ ~panicked
    /\ pc[t] = (IF in[1] \in {"written", "asis"} THEN "held" ELSE "idle")
    /\ IF statPanics(kind, x)
       THEN /\ panicked' = TRUE
            /\ cycle' = NoCycle
            /\ UNCHANGED <<apartVars, cfgVars, atomVars, idle, nextId, pc, b, localVars, histVars>>
       ELSE LET usedX == statFunc(kind, x)[1]
                capX == statFunc(kind, x)[2]
            IN  IF nothingToPool(capX)
                THEN /\ pc' = [pc EXCEPT ![t] = "idle"]
                     /\ b' = [b EXCEPT ![t] = NoT]
                     /\ cycle' = NoCycle
                     /\ UNCHANGED <<apartVars, cfgVars, atomVars, idle, nextId, panicked,
                                    localVars, histVars>>
                ELSE /\ putsStarted < PutLimit
                     /\ currentSz' = [currentSz EXCEPT ![t] = calibratedSz]
                     /\ pc' = [pc EXCEPT ![t] =
                                 IF usedX > calibratedSz THEN "loadMax"
                                 ELSE IF usedX > minSize THEN "sample"
                                 ELSE "tick"]
                     /\ overlapped' = (overlapped \/ \E o \in Threads \ {t} : pc[o] \in PutPcs)
                     /\ usedSeen' = (usedSeen \/ usedX > 0)
                     /\ b' = [b EXCEPT ![t] = x]
                     /\ cycle' = IF cycle.g = t /\ x = b[t] THEN cycle ELSE NoCycle
                     /\ UNCHANGED <<apartVars, cfgVars, atomVars, idle, nextId, panicked,
                                    oldMax, newCalls, newMax, nextSz,
                                    putsDone, calibrations, unreadPeak, discarded>>

\* line 150: sample one Put in 16 by the low bits of calls
PutSample(t) ==
    /\ ~panicked
    /\ pc[t] = "sample"
    /\ pc' = [pc EXCEPT ![t] = IF sampleNow(calls) THEN "loadMax" ELSE "tick"]
    /\ KeepCycle(t)
    /\ UNCHANGED <<apartVars, cfgVars, atomVars, idle, nextId, panicked, b, localVars, histVars>>

\* lines 157-160
PutLoadMax(t) ==
    /\ ~panicked
    /\ pc[t] = "loadMax"
    /\ oldMax' = [oldMax EXCEPT ![t] = maxUsage]
    /\ pc' = [pc EXCEPT ![t] = IF used(t) <= maxUsage THEN "tick" ELSE "casMax"]
    /\ KeepCycle(t)
    /\ UNCHANGED <<apartVars, cfgVars, atomVars, idle, nextId, panicked, b,
                   currentSz, newCalls, newMax, nextSz, histVars>>

\* lines 162-164
PutCasMax(t) ==
    /\ ~panicked
    /\ pc[t] = "casMax"
    /\ IF maxUsage = oldMax[t]
       THEN /\ maxUsage' = used(t)
            /\ unreadPeak' = used(t)
            /\ pc' = [pc EXCEPT ![t] = "tick"]
       ELSE /\ pc' = [pc EXCEPT ![t] = "loadMax"]
            /\ UNCHANGED <<maxUsage, unreadPeak>>
    /\ oldMax' = [oldMax EXCEPT ![t] = 0]
    /\ KeepCycle(t)
    /\ UNCHANGED <<apartVars, cfgVars, calls, calibratedSz, idle, nextId, panicked, b,
                   currentSz, newCalls, newMax, nextSz,
                   putsDone, calibrations, overlapped, discarded, usedSeen>>

\* lines 169-170
PutTick(t) ==
    /\ ~panicked
    /\ pc[t] = "tick"
    /\ calls' = calls + 1
    /\ newCalls' = [newCalls EXCEPT ![t] = calls + 1]
    /\ oldMax' = [oldMax EXCEPT ![t] = 0]
    /\ pc' = [pc EXCEPT ![t] = IF reachedPeriod(calls + 1, calibratePeriod) THEN "casCalls" ELSE "finish"]
    /\ KeepCycle(t)
    /\ UNCHANGED <<apartVars, cfgVars, maxUsage, calibratedSz, idle, nextId, panicked, b,
                   currentSz, newMax, nextSz, histVars>>

\* lines 172-173: the winner of the reset calls calibrate
PutCasCalls(t) ==
    /\ ~panicked
    /\ pc[t] = "casCalls"
    /\ IF calls = newCalls[t]
       THEN /\ calls' = 0
            /\ calibrations' = calibrations + 1
            /\ pc' = [pc EXCEPT ![t] = "calLoad"]
       ELSE /\ pc' = [pc EXCEPT ![t] = "finish"]
            /\ UNCHANGED <<calls, calibrations>>
    /\ newCalls' = [newCalls EXCEPT ![t] = 0]
    /\ KeepCycle(t)
    /\ UNCHANGED <<apartVars, cfgVars, maxUsage, calibratedSz, idle, nextId, panicked, b,
                   currentSz, oldMax, newMax, nextSz,
                   putsDone, overlapped, unreadPeak, discarded, usedSeen>>

\* line 194
CalLoadMax(t) ==
    /\ ~panicked
    /\ pc[t] = "calLoad"
    /\ newMax' = [newMax EXCEPT ![t] = maxUsage]
    /\ unreadPeak' = 0
    /\ pc' = [pc EXCEPT ![t] = "calReset"]
    /\ KeepCycle(t)
    /\ UNCHANGED <<apartVars, cfgVars, atomVars, idle, nextId, panicked, b,
                   currentSz, oldMax, newCalls, nextSz,
                   putsDone, calibrations, overlapped, discarded, usedSeen>>

\* lines 195-205
CalResetMax(t) ==
    /\ ~panicked
    /\ pc[t] = "calReset"
    /\ maxUsage' = 0
    /\ IF idleWindow(newMax[t])
       THEN /\ pc' = [pc EXCEPT ![t] = "finish"]
            /\ UNCHANGED newMax
       ELSE /\ pc' = [pc EXCEPT ![t] = "calLoadSz"]
            /\ newMax' = [newMax EXCEPT ![t] = clampMax(minSize, maxSize, @)]
    /\ KeepCycle(t)
    /\ UNCHANGED <<apartVars, cfgVars, calls, calibratedSz, idle, nextId, panicked, b,
                   currentSz, oldMax, newCalls, nextSz, histVars>>

\* lines 208-232
CalLoadSz(t) ==
    /\ ~panicked
    /\ pc[t] = "calLoadSz"
    /\ nextSz' = [nextSz EXCEPT ![t] = calibrateNext(minSize, maxSize, calibratedSz, newMax[t])]
    /\ pc' = [pc EXCEPT ![t] = "calStore"]
    /\ KeepCycle(t)
    /\ UNCHANGED <<apartVars, cfgVars, atomVars, idle, nextId, panicked, b,
                   currentSz, oldMax, newCalls, newMax, histVars>>

\* line 235
CalStore(t) ==
    /\ ~panicked
    /\ pc[t] = "calStore"
    /\ calibratedSz' = nextSz[t]
    /\ newMax' = [newMax EXCEPT ![t] = 0]
    /\ nextSz' = [nextSz EXCEPT ![t] = 0]
    /\ pc' = [pc EXCEPT ![t] = "finish"]
    /\ KeepCycle(t)
    /\ UNCHANGED <<apartVars, cfgVars, calls, maxUsage, idle, nextId, panicked, b,
                   currentSz, oldMax, newCalls, histVars>>

\* lines 180-187: smart discard, or reset and back into the pool
PutFinish(t) ==
    /\ ~panicked
    /\ pc[t] = "finish"
    /\ IF capVal(t) > discardLimit(currentSz[t], maxPercent)
       THEN /\ discarded' = discarded \cup {b[t].id}
            /\ UNCHANGED idle
       ELSE /\ idle' = idle \cup {resetArg(kind, b[t])}
            /\ UNCHANGED discarded
    /\ putsDone' = putsDone + 1
    /\ pc' = [pc EXCEPT ![t] = "idle"]
    /\ b' = [b EXCEPT ![t] = NoT]
    /\ currentSz' = [currentSz EXCEPT ![t] = 0]
    /\ newMax' = [newMax EXCEPT ![t] = 0]
    /\ cycle' = NoCycle
    /\ UNCHANGED <<apartVars, cfgVars, atomVars, nextId, panicked, oldMax, newCalls, nextSz,
                   calibrations, overlapped, unreadPeak, usedSeen>>

----------------------------------------------------------------------------

Next ==
    \/ \E t \in Threads : Get(t)
    \/ \E t \in Threads, in \in PutInputs : PutBegin(t, in)
    \/ \E t \in Threads : PutSample(t)
    \/ \E t \in Threads : PutLoadMax(t)
    \/ \E t \in Threads : PutCasMax(t)
    \/ \E t \in Threads : PutTick(t)
    \/ \E t \in Threads : PutCasCalls(t)
    \/ \E t \in Threads : CalLoadMax(t)
    \/ \E t \in Threads : CalResetMax(t)
    \/ \E t \in Threads : CalLoadSz(t)
    \/ \E t \in Threads : CalStore(t)
    \/ \E t \in Threads : PutFinish(t)

Spec == Init /\ [][Next]_vars

----------------------------------------------------------------------------
(* The pool under a scripted caller: goroutine g1 alone runs the cycles of
   the script, every step of Put being the step it is under any caller *)

InitTraffic ==
    /\ \E tr \in Traffics : traffic = tr
    /\ probeUsed = 0
    /\ New("buffer", <<OptTraffic>>)
    /\ mergeCall = MergeCall(DefaultOption, <<OptTraffic>>)
    /\ EmaStart
    /\ NoShard
    /\ NoLock
    /\ NoLegacy
    /\ NoRing

\* buf := p.Get()
TrafficGet ==
    /\ putsDone < ScriptLen(Script(traffic))
    /\ Get("g1")

\* buf.Write(make([]byte, used)); p.Put(buf)
TrafficPut ==
    PutBegin("g1", <<"written", ScriptUsed(Script(traffic), putsDone + 1)>>)

NextTraffic ==
    \/ TrafficGet
    \/ TrafficPut
    \/ PutSample("g1")
    \/ PutLoadMax("g1")
    \/ PutCasMax("g1")
    \/ PutTick("g1")
    \/ PutCasCalls("g1")
    \/ CalLoadMax("g1")
    \/ CalResetMax("g1")
    \/ CalLoadSz("g1")
    \/ CalStore("g1")
    \/ PutFinish("g1")

SpecTraffic == InitTraffic /\ [][NextTraffic]_vars

\* NewBytePool(WithMinSize(4), WithMaxSize(64), WithCalibratePeriod(1),
\* WithCalibratedSz(sz)) and a caller that writes u bytes in every cycle
InitProbe ==
    /\ traffic = "probe"
    /\ \E sz \in ProbeSizes, u \in ProbeUseds :
          /\ probeUsed = u
          /\ New("bytes", <<OptProbe(sz)>>)
          /\ mergeCall = MergeCall(DefaultOption, <<OptProbe(sz)>>)
    /\ EmaStart
    /\ NoShard
    /\ NoLock
    /\ NoLegacy
    /\ NoRing

SpecProbe == InitProbe /\ [][NextTraffic]_vars

----------------------------------------------------------------------------
(* option.go: Option.Merge called on its own, one loop iteration per step *)

\* longest argument list of a modelled call
MaxOthers == 3

\* the options of TestOptionMerge
Opt1 == SetMaxSize(SetMinSize(Options, 1024), 2048)
Opt2 == SetCalibratePeriod(Options, 500)
Opt3 == SetMaxPercent(Options, 200)

Receivers == {Options, Opt1, DefaultOption}
Entries == {NilOption, Options, Opt1, Opt2, Opt3, OptGrow, OptWarm}

RECURSIVE SeqsUpTo(_, _)
SeqsUpTo(S, n) ==
    IF n = 0 THEN {<< >>}
    ELSE LET shorter == SeqsUpTo(S, n - 1)
         IN  shorter \cup {Append(q, e) : q \in shorter, e \in S}

InitMerge ==
    /\ \E recv \in Receivers, others \in SeqsUpTo(Entries, MaxOthers) :
          mergeCall = [recv |-> recv, others |-> others, i |-> 0, o |-> recv, done |-> FALSE]
    /\ NoPool
    /\ EmaStart
    /\ NoShard
    /\ NoLock
    /\ NoLegacy
    /\ NoRing

\* lines 74-76: one iteration of the loop
MergeStep ==
    /\ ~mergeCall.done
    /\ mergeCall.i < Len(mergeCall.others)
    /\ mergeCall' = [mergeCall EXCEPT !.i = @ + 1,
                                      !.o = merge(@, mergeCall.others[mergeCall.i + 1])]
    /\ UNCHANGED <<emaVars, scriptVars, shardVars, lockVars, legacyVars, ringVars>>

\* line 77
MergeReturn ==
    /\ ~mergeCall.done
    /\ mergeCall.i = Len(mergeCall.others)
    /\ mergeCall' = [mergeCall EXCEPT !.done = TRUE]
    /\ UNCHANGED <<emaVars, scriptVars, shardVars, lockVars, legacyVars, ringVars>>

NextMerge ==
    \/ MergeStep
    \/ MergeReturn

SpecMerge == InitMerge /\ [][NextMerge]_vars

----------------------------------------------------------------------------
(* AdaptivePool: one shard.  Get and Put hold the shard's mutex from their
   first access to their return, so each is one step; a shard shares nothing
   with the other shards. *)

\* the clock stops here
MaxClock == 20
\* Gets per statistics window
MaxGets == 3
\* T's newFunc may make
MaxMade == 2
\* T's that come to this shard from another one
MaxForeign == 1

\* seconds between two readings of the clock that differ
ClockStep == 5

\* tenths
scaleFactor == 12
shrinkFactor == 8
\* seconds
scaleInterval == 10

\* the argument triples <<minIdle, maxIdle, maxIdleLimit>> of NewAdaptivePool
ShardArgs == { <<4, 5, 6>>, <<1, 2, 3>>, <<0, 1, 1>>, <<2, 1, 3>>, <<1, 3, 2>>,
               <<4, 8, 64>> }

NewAdaptivePool(mn, mx, limit) ==
    /\ minIdle = mn
    /\ maxIdle = mx
    /\ maxIdleLimit = limit
    /\ shardIdle = << >>
    /\ currentMax = mx
    /\ lastScale = now
    /\ activeCount = 0 /\ hitCount = 0 /\ getCount = 0

InitShard ==
    /\ now = 0
    /\ \E a \in ShardArgs : NewAdaptivePool(a[1], a[2], a[3])
    /\ shardMade = 0 /\ shardOut = {} /\ shardDropped = {}
    /\ lastGet = [got |-> "none"]
    /\ shardForeign = 0
    /\ kind = "shard"
    /\ NoEma
    /\ EmaStart
    /\ mergeCall = MergeCall(Options, << >>)
    /\ NoLock
    /\ NoLegacy
    /\ NoRing

\* faulty variant: an entry exactly scaleInterval old still counts as fresh
fresh_le(e, t) == t - e.lastUse <= scaleInterval

\* line 89: the entry has been used within the last scaleInterval
fresh(e, t) == t - e.lastUse < scaleInterval

\* lines 84-98: pop until a fresh entry is found or the stack is empty;
\* the stack that is left, the entry found (if any) and the objects popped
\* before it
RECURSIVE popFresh(_, _, _)
popFresh(stack, t, popped) ==
    IF Len(stack) = 0
    THEN [idle |-> stack, hit |-> FALSE, popped |-> popped]
    ELSE LET obj == stack[Len(stack)]
             rest == SubSeq(stack, 1, Len(stack) - 1)
         IN  IF fresh(obj, t)
             THEN [idle |-> rest, hit |-> TRUE, obj |-> obj, popped |-> popped]
             ELSE popFresh(rest, t, popped \cup {obj.obj})

\* lines 70-103
ShardGet ==
    /\ kind = "shard"
    /\ getCount < MaxGets
    /\ LET r == popFresh(shardIdle, now, {}) IN
        /\ r.hit \/ shardMade < MaxMade
        /\ getCount' = getCount + 1
        /\ shardIdle' = r.idle
        /\ shardDropped' = shardDropped \cup r.popped
        /\ activeCount' = activeCount + 1
        /\ IF r.hit
           THEN /\ hitCount' = hitCount + 1
                /\ shardOut' = shardOut \cup {r.obj.obj}
                /\ lastGet' = [got |-> "hit", obj |-> r.obj.obj, age |-> now - r.obj.lastUse]
                /\ UNCHANGED shardMade
           ELSE /\ shardMade' = shardMade + 1
                /\ shardOut' = shardOut \cup {shardMade + 1}
                /\ lastGet' = [got |-> "made", obj |-> shardMade + 1]
                /\ UNCHANGED hitCount
    /\ UNCHANGED <<minIdle, maxIdle, maxIdleLimit, currentMax, lastScale, now,
                   shardForeign>>
    /\ UNCHANGED <<emaVars, scriptVars, mergeCall, lockVars, legacyVars, ringVars>>

\* faulty variant: a window without a Get counts as one with every Get a hit
busy_idle(hit, get) == get = 0 \/ 5 * hit > 4 * get

\* lines 141-143 and 150: hitRate > 0.8, hitRate being 0 when getCount is 0
busy(hit, get) == get > 0 /\ 5 * hit > 4 * get

\* lines 141-143 and 160: hitRate < 0.2
slack(hit, get) == get = 0 \/ 5 * hit < get

\* lines 151-154
growMax(cm, limit) == Min((cm * scaleFactor) \div 10, limit)

\* lines 161-164
shrinkMax(cm, mn) == Max((cm * shrinkFactor) \div 10, mn)

\* lines 132-172: the fields scaleShard leaves behind when called at time t
scaleShard(t) ==
    LET same == [lastScale |-> lastScale, hitCount |-> hitCount, getCount |-> getCount,
                 currentMax |-> currentMax, idle |-> shardIdle]
        reset == [same EXCEPT !.lastScale = t, !.hitCount = 0, !.getCount = 0]
    IN  IF t - lastScale < scaleInterval THEN same
        ELSE IF busy(hitCount, getCount) /\ currentMax < maxIdleLimit
             THEN [reset EXCEPT !.currentMax = growMax(currentMax, maxIdleLimit)]
        ELSE IF slack(hitCount, getCount) /\ currentMax > minIdle
             THEN LET shrunk == shrinkMax(currentMax, minIdle)
                  IN  [reset EXCEPT !.currentMax = shrunk,
                                    !.idle = IF Len(shardIdle) > shrunk
                                             THEN SubSeq(shardIdle, 1, shrunk)
                                             ELSE shardIdle]
        ELSE reset

\* faulty variant: <= instead of <, one entry more than currentMax is kept
hasRoom_le(n, cm) == n <= cm

\* line 122
hasRoom(n, cm) == n < cm

\* the objects held by the entries of a stack
Objs(stack) == {stack[i].obj : i \in 1..Len(stack)}

\* the T's this shard may see: its own, numbered from 1, and those made by
\* another shard, numbered from -1 down
ShardObjs == (1..MaxMade) \cup {-k : k \in 1..MaxForeign}

\* lines 111-128: Put on this shard, whichever shard handed obj out
putShard(obj) ==
    /\ kind = "shard"
    /\ activeCount' = activeCount - 1
    /\ LET sc == scaleShard(now) IN
        /\ lastScale' = sc.lastScale
        /\ hitCount' = sc.hitCount
        /\ getCount' = sc.getCount
        /\ currentMax' = sc.currentMax
        /\ IF hasRoom(Len(sc.idle), sc.currentMax)
           THEN /\ shardIdle' = Append(sc.idle, [obj |-> obj, lastUse |-> now])
                /\ shardDropped' = shardDropped \cup (Objs(shardIdle) \ Objs(sc.idle))
           ELSE /\ shardIdle' = sc.idle
                /\ shardDropped' = shardDropped \cup (Objs(shardIdle) \ Objs(sc.idle)) \cup {obj}
    /\ UNCHANGED <<minIdle, maxIdle, maxIdleLimit, now, shardMade, lastGet>>
    /\ UNCHANGED <<emaVars, scriptVars, mergeCall, lockVars, legacyVars, ringVars>>

\* lines 106-129, the goroutine that puts runs on the P it got the T on
ShardPut(obj) ==
    /\ obj \in shardOut
    /\ shardOut' = shardOut \ {obj}
    /\ putShard(obj)
    /\ UNCHANGED shardForeign

\* lines 106-129, lines 107-109 picking this shard for a T that a Get on
\* another shard handed out
ShardPutForeign ==
    /\ shardForeign < MaxForeign
    /\ shardForeign' = shardForeign + 1
    /\ putShard(-(shardForeign + 1))
    /\ UNCHANGED shardOut

\* lines 106-129, lines 107-109 picking another shard for a T that this
\* shard handed out: this shard's fields are not touched
ShardPutElsewhere(obj) ==
    /\ kind = "shard"
    /\ obj \in shardOut
    /\ shardOut' = shardOut \ {obj}
    /\ UNCHANGED <<minIdle, maxIdle, maxIdleLimit, shardIdle, activeCount, hitCount,
                   getCount, currentMax, lastScale, now, shardMade, shardDropped,
                   lastGet, shardForeign>>
    /\ UNCHANGED <<emaVars, scriptVars, mergeCall, lockVars, legacyVars, ringVars>>

\* time passes
Tick ==
    /\ kind = "shard"
    /\ now < MaxClock
    /\ now' = now + ClockStep
    /\ UNCHANGED <<minIdle, maxIdle, maxIdleLimit, shardIdle, activeCount, hitCount,
                   getCount, currentMax, lastScale, shardMade, shardOut, shardDropped,
                   lastGet, shardForeign>>
    /\ UNCHANGED <<emaVars, scriptVars, mergeCall, lockVars, legacyVars, ringVars>>

NextShard ==
    \/ ShardGet
    \/ \E obj \in ShardObjs : ShardPut(obj)
    \/ ShardPutForeign
    \/ \E obj \in ShardObjs : ShardPutElsewhere(obj)
    \/ Tick

SpecShard == InitShard /\ [][NextShard]_vars

\* either engine: a process builds an EMA pool or a sharded pool
SpecEngines == (Init \/ InitShard) /\ [][Next \/ NextShard]_vars

----------------------------------------------------------------------------
(* SpinLock.  The compare-and-swap and the store are the only accesses to
   the lock word, one step each; the Gosched after a failed compare-and-swap
   and the loop bookkeeping belong to the step of the compare-and-swap. *)

\* line 11: i < 200
spinLimit == 200

\* faulty variant: the swap does not compare
casFree_blind(w) == TRUE

\* faulty variant: the swap compares with the value of a held lock
casFree_held(w) == w = 1

\* lines 12 and 17: CompareAndSwapUint32(sl, 0, 1) succeeds
casFree(w) == w = 0

InitLock ==
    /\ NoLock
    /\ NoPool
    /\ EmaStart
    /\ mergeCall = MergeCall(Options, << >>)
    /\ NoShard
    /\ NoLegacy
    /\ NoRing

\* line 10-11: Lock is called, i := 0
LockCall(t) ==
    /\ lockPc[t] = "out"
    /\ lockPc' = [lockPc EXCEPT ![t] = "spin"]
    /\ lockI' = [lockI EXCEPT ![t] = 0]
    /\ UNCHANGED sl
    /\ UNCHANGED <<emaVars, scriptVars, mergeCall, shardVars, legacyVars, ringVars>>

\* lines 11-16: one turn of the bounded loop
LockSpin(t) ==
    /\ lockPc[t] = "spin"
    /\ IF casFree(sl)
       THEN /\ sl' = 1
            /\ lockPc' = [lockPc EXCEPT ![t] = "in"]
            /\ lockI' = [lockI EXCEPT ![t] = 0]
       ELSE /\ lockI' = [lockI EXCEPT ![t] = @ + 1]
            /\ lockPc' = [lockPc EXCEPT ![t] = IF lockI[t] + 1 < spinLimit
                                               THEN "spin" ELSE "retry"]
            /\ UNCHANGED sl
    /\ UNCHANGED <<emaVars, scriptVars, mergeCall, shardVars, legacyVars, ringVars>>

\* lines 17-19: the turn of the unbounded loop that succeeds; a turn that
\* fails changes nothing
LockRetry(t) ==
    /\ lockPc[t] = "retry"
    /\ casFree(sl)
    /\ sl' = 1
    /\ lockPc' = [lockPc EXCEPT ![t] = "in"]
    /\ lockI' = [lockI EXCEPT ![t] = 0]
    /\ UNCHANGED <<emaVars, scriptVars, mergeCall, shardVars, legacyVars, ringVars>>

\* lines 22-24, called by the goroutine whose Lock returned
Unlock(t) ==
    /\ lockPc[t] = "in"
    /\ sl' = 0
    /\ lockPc' = [lockPc EXCEPT ![t] = "out"]
    /\ UNCHANGED lockI
    /\ UNCHANGED <<emaVars, scriptVars, mergeCall, shardVars, legacyVars, ringVars>>

NextLock ==
    \/ \E t \in Threads : LockCall(t)
    \/ \E t \in Threads : LockSpin(t)
    \/ \E t \in Threads : LockRetry(t)
    \/ \E t \in Threads : Unlock(t)

SpecLock == InitLock /\ [][NextLock]_vars

\* The scheduler lets every goroutine that is inside Lock run again and
\* again (each failed compare-and-swap is followed by Gosched), and a holder
\* goes on to its Unlock; nothing makes a goroutine call Lock.
FairLock ==
    \A t \in Threads :
        /\ WF_vars(LockSpin(t))
        /\ WF_vars(LockRetry(t))
        /\ WF_vars(Unlock(t))

SpecLockFair == SpecLock /\ FairLock

----------------------------------------------------------------------------
(* The first version: Get, Release and Bytes of *buffer.  A bytes.Buffer
   keeps its backing array over Reset and writes into it from the start; a
   slice shares the backing array it was cut from. *)

InitLegacy ==
    /\ NoLegacy
    /\ NoPool
    /\ EmaStart
    /\ mergeCall = MergeCall(Options, << >>)
    /\ NoShard
    /\ NoLock
    /\ NoRing

\* buffer.go lines 18-20 and 12-16: the pool hands out one of the *buffer's
\* it holds, or a new one
LegacyGet(t) ==
    /\ legacyHeld[t] = 0
    /\ \/ \E n \in legacyPool :
            /\ legacyPool' = legacyPool \ {n}
            /\ legacyHeld' = [legacyHeld EXCEPT ![t] = n]
            /\ UNCHANGED <<legacyBuf, legacyMem>>
       \/ /\ legacyPool = {}
          /\ Len(legacyBuf) < MaxLegacyBufs
          /\ LET n == Len(legacyBuf) + 1 IN
               /\ legacyBuf' = Append(legacyBuf, [store |-> n, len |-> 0])
               /\ legacyMem' = [legacyMem EXCEPT ![n] = [k \in 1..MaxLegacyLen |-> 0]]
               /\ legacyHeld' = [legacyHeld EXCEPT ![t] = n]
               /\ UNCHANGED legacyPool
    /\ UNCHANGED legacySlices
    /\ UNCHANGED <<emaVars, scriptVars, mergeCall, shardVars, lockVars, ringVars>>

\* bytes.Buffer.WriteByte through the embedded field (line 9)
LegacyWrite(t, c) ==
    /\ legacyHeld[t] # 0
    /\ LET n == legacyHeld[t]
           buf == legacyBuf[n]
       IN  /\ buf.len < MaxLegacyLen
           /\ legacyMem' = [legacyMem EXCEPT ![buf.store][buf.len + 1] = c]
           /\ legacyBuf' = [legacyBuf EXCEPT ![n].len = @ + 1]
    /\ UNCHANGED <<legacyPool, legacyHeld, legacySlices>>
    /\ UNCHANGED <<emaVars, scriptVars, mergeCall, shardVars, lockVars, ringVars>>

\* faulty variant: what bytes.Buffer.Bytes gives is returned as it is
bytesStore_shared(own, made) == own

\* lines 35-38: the backing array of the slice returned, own being the
\* *buffer's array and made the array of make
bytesStore(own, made) == made

\* lines 34-39
LegacyTakeBytes(t) ==
    /\ legacyHeld[t] # 0
    /\ Len(legacySlices) < MaxSlices
    /\ LET n == legacyHeld[t]
           buf == legacyBuf[n]
           bs == SubSeq(legacyMem[buf.store], 1, buf.len)
           made == MaxLegacyBufs + Len(legacySlices) + 1
       IN  /\ legacyMem' = [legacyMem EXCEPT ![made] = bs]
           /\ legacySlices' = Append(legacySlices,
                                     [store |-> bytesStore(buf.store, made),
                                      len |-> buf.len, was |-> bs,
                                      of |-> n, by |-> t])
    /\ UNCHANGED <<legacyBuf, legacyPool, legacyHeld>>
    /\ UNCHANGED <<emaVars, scriptVars, mergeCall, shardVars, lockVars, ringVars>>

\* lines 22-32
LegacyRelease(t) ==
    /\ legacyHeld[t] # 0
    /\ LET n == legacyHeld[t] IN
           /\ legacyBuf' = [legacyBuf EXCEPT ![n].len = 0]
           /\ legacyPool' = legacyPool \cup {n}
    /\ legacyHeld' = [legacyHeld EXCEPT ![t] = 0]
    /\ UNCHANGED <<legacyMem, legacySlices>>
    /\ UNCHANGED <<emaVars, scriptVars, mergeCall, shardVars, lockVars, ringVars>>

NextLegacy ==
    \/ \E t \in Threads : LegacyGet(t)
    \/ \E t \in Threads, c \in LegacyBytes : LegacyWrite(t, c)
    \/ \E t \in Threads : LegacyTakeBytes(t)
    \/ \E t \in Threads : LegacyRelease(t)

SpecLegacy == InitLegacy /\ [][NextLegacy]_vars

----------------------------------------------------------------------------
(* AdaptiveRingPool.  Everything but getCount is read and written only
   between Lock and Unlock, so the critical section of Get is one step;
   Put's is cut where autoScale loads getCount, which a Get adds to before
   it takes the lock. *)

\* Get calls that may be started
MaxRingGets == 3

\* tenths
ScaleUpFactor == 12
ScaleDownFactor == 8
\* fifths: 0.8 and 0.2
HitRateHigh == 4
HitRateLow == 1

\* the arguments <<minCap, maxCap>> of NewAdaptiveRingPoolWithLimit
RingArgs == { <<5, 6>>, <<0, 0>>, <<2, 1>>, <<1, 3>> }

\* lines 47-61
NewAdaptiveRingPoolWithLimit(mn, mx) ==
    LET lo == IF mn < 1 THEN 1 ELSE mn
        hi == IF mx < lo THEN lo ELSE mx
    IN  /\ ringBuf = [i \in 1..lo |-> 0]
        /\ minCap = lo
        /\ maxCap = hi
        /\ curCap = lo
        /\ head = 0 /\ tail = 0 /\ count = 0
        /\ ringHit = 0 /\ ringGet = 0
        /\ ringMu = "free"

InitRing ==
    /\ \E a \in RingArgs : NewAdaptiveRingPoolWithLimit(a[1], a[2])
    /\ ringPc = [t \in Threads |-> "idle"]
    /\ total = [t \in Threads |-> 0]
    /\ ringGets = 0
    /\ ringPanic = "none"
    /\ NoPool
    /\ EmaStart
    /\ mergeCall = MergeCall(Options, << >>)
    /\ NoShard
    /\ NoLock
    /\ NoLegacy

ringRest == <<emaVars, scriptVars, mergeCall, shardVars, lockVars, legacyVars>>

\* line 66: getCount.Add(1), before the lock is taken
RingGetCount(t) ==
    /\ ringPanic = "none"
    /\ ringPc[t] = "idle"
    /\ ringGets < MaxRingGets
    /\ ringGets' = ringGets + 1
    /\ ringGet' = ringGet + 1
    /\ ringPc' = [ringPc EXCEPT ![t] = "counted"]
    /\ UNCHANGED <<ringMu, ringBuf, head, tail, count, minCap, maxCap, curCap, ringHit,
                   total, ringPanic>>
    /\ UNCHANGED ringRest

\* lines 68-81: Lock, the hit or the miss, Unlock
RingGet(t) ==
    /\ ringPanic = "none"
    /\ ringPc[t] = "counted"
    /\ ringMu = "free"
    /\ IF count > 0
       THEN /\ head' = (head + 1) % curCap
            /\ count' = count - 1
            /\ ringHit' = ringHit + 1
       ELSE UNCHANGED <<head, count, ringHit>>
    /\ ringPc' = [ringPc EXCEPT ![t] = "idle"]
    /\ UNCHANGED <<ringMu, ringBuf, tail, minCap, maxCap, curCap, ringGet, total,
                   ringGets, ringPanic>>
    /\ UNCHANGED ringRest

\* line 90
ringRoom(n, cap) == n < cap

\* lines 86-94 and 104: Lock, store the T if there is room, load getCount;
\* the deferred Unlock runs when the store panics
RingPut(t) ==
    /\ ringPanic = "none"
    /\ ringPc[t] = "idle"
    /\ ringMu = "free"
    /\ IF ringRoom(count, curCap)
       THEN IF tail + 1 > Len(ringBuf)
            THEN /\ ringPanic' = "Put"
                 /\ UNCHANGED <<ringBuf, tail, count>>
            ELSE /\ ringBuf' = [ringBuf EXCEPT ![tail + 1] = 1]
                 /\ tail' = (tail + 1) % curCap
                 /\ count' = count + 1
                 /\ UNCHANGED ringPanic
       ELSE UNCHANGED <<ringBuf, tail, count, ringPanic>>
    /\ ringMu' = IF ringPanic' = "none" THEN t ELSE "free"
    /\ total' = [total EXCEPT ![t] = ringGet]
    /\ ringPc' = [ringPc EXCEPT ![t] = "scale"]
    /\ UNCHANGED <<head, minCap, maxCap, curCap, ringHit, ringGet, ringGets>>
    /\ UNCHANGED ringRest

\* lines 113-115 and 121-123: the capacity autoScale asks resize for, the
\* current one when it asks for nothing
ringNewCap(hit, tot, cap) ==
    IF tot = 0 THEN cap
    ELSE IF 5 * hit > HitRateHigh * tot /\ cap < maxCap
    THEN Min((cap * ScaleUpFactor) \div 10, maxCap)
    ELSE IF 5 * hit < HitRateLow * tot /\ cap > minCap
    THEN Max((cap * ScaleDownFactor) \div 10, minCap)
    ELSE cap

\* lines 141-145: the ring's count entries, oldest first
ringCopy(n) == [i \in 1..n |-> ringBuf[((head + i - 1) % curCap) + 1]]

\* lines 105-129 and 132-156, then the deferred Unlock
RingScale(t) ==
    /\ ringPanic = "none"
    /\ ringPc[t] = "scale"
    /\ LET newCap == ringNewCap(ringHit, total[t], curCap) IN
         IF total[t] = 0 \/ newCap = curCap
         THEN UNCHANGED <<ringBuf, head, tail, curCap, ringHit, ringGet, ringPanic>>
         ELSE IF count > newCap
         THEN /\ ringPanic' = "resize"
              /\ UNCHANGED <<ringBuf, head, tail, curCap, ringHit, ringGet>>
         ELSE /\ ringBuf' = [i \in 1..newCap |->
                               IF i <= count THEN ringCopy(count)[i] ELSE 0]
              /\ head' = 0
              /\ tail' = count
              /\ curCap' = newCap
              /\ ringHit' = 0
              /\ ringGet' = 0
              /\ UNCHANGED ringPanic
    /\ ringMu' = "free"
    /\ ringPc' = [ringPc EXCEPT ![t] = "idle"]
    /\ total' = [total EXCEPT ![t] = 0]
    /\ UNCHANGED <<count, minCap, maxCap, ringGets>>
    /\ UNCHANGED ringRest

NextRing ==
    \/ \E t \in Threads : RingGetCount(t)
    \/ \E t \in Threads : RingGet(t)
    \/ \E t \in Threads : RingPut(t)
    \/ \E t \in Threads : RingScale(t)

SpecRing == InitRing /\ [][NextRing]_vars

----------------------------------------------------------------------------
(* Claims about the EMA pool *)

\* no Put is in progress
quiescent == \A t \in Threads : pc[t] \notin PutPcs

\* number of atomic adds of line 169 performed so far
ticks == putsDone + Cardinality({t \in Threads : pc[t] \in TickedPcs})

\* the value of calibratedSz when New returned
initialSz == Max(opt.MinSize, opt.CalibratedSz)

\* C1: every observable calibrated_size lies between min_size and max_size,
\* whatever the options (initial size above max_size, max_size below min_size).
C1_SizeWithinBounds == minSize <= calibratedSz /\ calibratedSz <= maxSize

\* C2: Put(nil) on the pool built by NewBufferPool is a silent no-op: the
\* process never faults on it (the statistics and the idle store are then
\* untouched because the call returns at the cap == 0 test).
C2_NilPutIsNoOp == kind = "buffer" => ~panicked

\* C3: at most one goroutine is inside calibrate at any moment.
C3_OneCalibrator == Cardinality({t \in Threads : pc[t] \in CalPcs}) <= 1

\* C4 (as claimed): whenever n Releases with cap > 0 have completed and none is
\* in progress, exactly floor(n / calibrate_period) Calibrates were triggered,
\* in concurrent executions too.
C4_ExactlyOnePerPeriod ==
    quiescent => calibrations = putsDone \div calibratePeriod

\* C4 (amended): a Calibrate is triggered at most once per calibrate_period
\* ticks of calls in every execution, and exactly floor(n / calibrate_period)
\* times after n completed Releases when no two Releases have overlapped.
C4_AtMostOnePerPeriod ==
    /\ calibrations * calibratePeriod <= ticks
    /\ (quiescent /\ ~overlapped) => calibrations = putsDone \div calibratePeriod

C4_Witness ==
    /\ quiescent /\ ~overlapped
    /\ putsDone >= 2 /\ calibrations >= 1 /\ calibrations < putsDone

\* C5: a value a Release stored in max_usage is never wiped by Calibrate's
\* reset before some Calibrate has loaded it: while such a value is unread it
\* is still (at least) what max_usage holds.
C5_NoPeakLost == unreadPeak # 0 => maxUsage >= unreadPeak

\* C6: a Release whose T has cap > current_size * max_percent (current_size as
\* loaded at the start of that Release) leaves the idle store as it is and
\* drops T, and a dropped T is never in the idle store nor handed out again.
C6_SmartDiscard ==
    /\ [][\A t \in Threads :
            (pc[t] = "finish" /\ pc'[t] = "idle"
                /\ b[t].cap * 100 > currentSz[t] * maxPercent)
            => (idle' = idle /\ b[t].id \in discarded')]_vars
    /\ [](\A i \in discarded :
            /\ \A o \in idle : o.id # i
            /\ \A t \in Threads : b[t].id # i)

C6_Witness ==
    /\ maxPercent = 100
    /\ discarded # {}
    /\ \E t \in Threads : pc[t] = "held" /\ b[t].cap = calibratedSz

\* C7: New normalizes an inconsistent configuration: the pool's max_size is
\* max(max_size, min_size) of the options and its first calibrated_size is
\* max(min_size, calibrated_size).
C7_ConfigNormalized ==
    /\ maxSize = Max(opt.MaxSize, opt.MinSize)
    /\ (putsDone = 0 /\ quiescent) => calibratedSz = Max(opt.MinSize, opt.CalibratedSz)

\* C8: a Release of a T with cap == 0 returns at once: such a Release is never
\* found past the stat test, and the step that returns leaves calls,
\* max_usage, calibrated_size, the idle store and the calibration count alone.
C8_ZeroCapIsNoOp ==
    /\ [](\A t \in Threads : pc[t] \in PutPcs => b[t].cap > 0)
    /\ [][\A t \in Threads :
            (pc[t] = "held" /\ pc'[t] = "idle")
            => UNCHANGED <<atomVars, idle, calibrations, putsDone, discarded>>]_vars

\* every T made so far went back through a Release that returned at cap == 0
C8_Witness ==
    /\ nextId > 1
    /\ putsDone = 0 /\ idle = {} /\ discarded = {}
    /\ \A t \in Threads : pc[t] = "idle"

\* the step on which goroutine t returns from the Put of an uninterrupted
\* Get + Put pair on an untouched T
CycleEnds(t) == cycle.g = t /\ pc[t] \in {"held", "finish"} /\ pc'[t] = "idle"

\* C9 (as claimed): after Acquire immediately followed by Release of the same
\* untouched T the idle store and calibrated_size are what they were before
\* the Acquire.
C9_CycleRestoresPool ==
    [][\A t \in Threads :
        CycleEnds(t) => (idle' = cycle.idle /\ calibratedSz' = cycle.calibratedSz)]_vars

\* C9 (amended): after such a pair the idle store is the pre-Acquire store up
\* to T itself (T added when Acquire made it, T gone when Release drops it),
\* calls has ticked at most once or was reset, and calibrated_size differs only
\* if that tick reached calibrate_period and Calibrate read a non-zero peak.
C9_CycleChangesOnlyT ==
    [][\A t \in Threads :
        CycleEnds(t) =>
            /\ {o \in idle' : o.id # b[t].id} = {o \in cycle.idle : o.id # b[t].id}
            /\ \A o \in idle' : o.id = b[t].id => o = b[t]
            /\ calls' \in {cycle.calls, cycle.calls + 1, 0}
            /\ maxUsage' \in {cycle.maxUsage, b[t].len, 0}
            /\ calibratedSz' # cycle.calibratedSz =>
                  /\ cycle.calls + 1 >= calibratePeriod
                  /\ calls' = 0
                  /\ (cycle.maxUsage # 0 \/ b[t].len # 0)]_vars

\* an uninterrupted pair is about to end with a calibration that moved the size
C9_Witness ==
    \E t \in Threads :
        /\ cycle.g = t /\ pc[t] = "finish"
        /\ calibratedSz # cycle.calibratedSz

\* C10: calibrated_size changes only on the final store of a Calibrate (never
\* on Acquire), a Calibrate gets past its zero-peak test only after some
\* Release saw used > 0, and as long as every Release had used = 0 the size
\* keeps the value it had when New returned, however many Calibrates ran.
C10_SizeMovesOnlyOnPeak ==
    /\ [][calibratedSz' # calibratedSz =>
            \E t \in Threads : pc[t] = "calStore" /\ pc'[t] = "finish"]_vars
    /\ [](\A t \in Threads : pc[t] \in {"calLoadSz", "calStore"} => usedSeen)
    /\ [](~usedSeen => calibratedSz = initialSz)

C10_Witness ==
    /\ ~usedSeen /\ quiescent
    /\ putsDone >= 2 /\ calibrations >= 2

\* the step on which goroutine t leaves the calibration trigger of lines 169-175
\* (and calibrate, when it ran it) for the discard decision
TriggerEnds(t) == pc[t] # "finish" /\ pc'[t] = "finish"

\* C11 (as claimed): with calibrate_period = 1 every Release with cap > 0 runs
\* Calibrate before it returns, in concurrent executions too: it reaches the
\* discard decision only out of calibrate.
C11_EveryReleaseCalibrates ==
    [][\A t \in Threads :
        (calibratePeriod = 1 /\ TriggerEnds(t)) => pc[t] \in CalPcs]_vars

\* C11 (amended): with calibrate_period = 1 a Release with cap > 0 returns
\* without a Calibrate only when its reset of calls failed because another
\* Release ticked calls in between; when no two Releases overlap every such
\* Release runs Calibrate before it returns.
C11_CalibratesUnlessOutrun ==
    [][\A t \in Threads :
        (calibratePeriod = 1 /\ TriggerEnds(t)) =>
            \/ pc[t] \in CalPcs
            \/ /\ pc[t] = "casCalls"
               /\ calls # newCalls[t]
               /\ overlapped]_vars

\* two Releases, one after the other, each one calibrated
C11_Witness ==
    /\ calibratePeriod = 1 /\ ~overlapped /\ quiescent
    /\ putsDone = 2 /\ calibrations = 2 /\ usedSeen

\* C12: with min_size = max_size = v the calibrated size is v in every state
\* from construction onwards, whatever initial calibrated size was configured.
C12_FrozenSize ==
    opt.MinSize = opt.MaxSize => calibratedSz = opt.MinSize

\* C16: every T a caller holds from Get has capacity >= min_size (callers put
\* back only what Get gave them, never with less capacity).
C16_GetAtLeastMin ==
    \A t \in Threads : pc[t] = "held" => b[t].cap >= minSize

\* the integer part of max_size * max_percent (maxPercent is in hundredths)
RetainLimit ==
    (maxSize \div 100) * maxPercent + ((maxSize % 100) * maxPercent) \div 100

\* C17: every T in the idle store, and so every T Get hands out, has capacity
\* <= max_size * max_percent, for every option set and however far callers
\* grow their buffers.
C17_RetainedBounded ==
    /\ \A o \in idle : o.cap <= RetainLimit
    /\ \A t \in Threads : pc[t] = "held" => b[t].cap <= RetainLimit

----------------------------------------------------------------------------
(* Claims about the calibration under scripted traffic *)

\* the step on which a Calibrate stores the size it computed
CalibrateStores == pc["g1"] = "calStore" /\ pc'["g1"] = "finish"

\* n Calibrates were triggered and the last one has returned
calibrated(n) == calibrations = n /\ pc["g1"] \notin CalPcs

\* C13: ramp (200 cycles with used = 4096 from calibrated size 1024): after
\* the second calibration the size is above 1024 and at most 4096 * 1.05, the
\* second calibration happens, and every calibration under this traffic above
\* the current size raises the size (so what Get makes grows).
C13_RampGrows ==
    /\ [](traffic = "ramp" /\ calibrated(2) =>
            calibratedSz > 1024 /\ calibratedSz * 100 <= 4096 * 105)
    /\ [](traffic = "ramp" /\ putsDone = 200 => calibrated(2))
    /\ [][traffic = "ramp" /\ CalibrateStores => calibratedSz' > calibratedSz]_vars
    /\ [][traffic = "ramp" => calibratedSz' >= calibratedSz]_vars

C13_Witness ==
    /\ traffic = "ramp" /\ putsDone = 200 /\ calibrated(2)
    /\ calibratedSz = 3844
    /\ \E o \in idle : o.cap >= 4096

\* C14: cooldown (200 cycles with used = 8192, then 500 with used = 1024):
\* five calibrations happen in the second phase, each of them finds a sampled
\* peak and lowers the size, so the final size is below the one the ramp
\* reached, and it is still above 1024.
C14_CooldownShrinksSlowly ==
    /\ [](traffic = "cooldown" /\ putsDone >= 200 /\ pc["g1"] = "calReset"
            => newMax["g1"] # 0)
    /\ [][traffic = "cooldown" /\ putsDone >= 200 /\ CalibrateStores
            => calibratedSz' < calibratedSz]_vars
    /\ [][traffic = "cooldown" /\ putsDone >= 200 => calibratedSz' <= calibratedSz]_vars
    /\ [](traffic = "cooldown" /\ putsDone = 200 => calibrated(2))
    /\ [](traffic = "cooldown" /\ putsDone = 700 => calibrated(7) /\ calibratedSz > 1024)

C14_Witness ==
    /\ traffic = "cooldown" /\ putsDone = 700 /\ calibrated(7)
    /\ calibratedSz = 4850

\* C15: spike (200 cycles with used = 4096, one with used = 32768, 50 with
\* used = 4096): from the end of the ramp to the end of the script the size
\* keeps the value the ramp reached, which is below 3 * 4096.
C15_SpikeRejected ==
    /\ [](traffic = "spike" /\ putsDone >= 200 => calibratedSz < 3 * 4096)
    /\ [][traffic = "spike" /\ putsDone >= 200 => calibratedSz' = calibratedSz]_vars

\* the script is over and the spike is what max_usage holds
C15_Witness ==
    /\ traffic = "spike" /\ putsDone = 251 /\ quiescent
    /\ maxUsage = 32768 /\ calls = 51

----------------------------------------------------------------------------
(* Claims about Option *)

\* the positions of the entries of others that set field f
Setters(others, f) ==
    {i \in 1..Len(others) : others[i] # NilOption /\ others[i][f] # Absent}

\* the largest element of a non-empty set of numbers
Last(S) == CHOOSE i \in S : \A j \in S : j <= i

\* C18: in the result of Merge(others...) every field holds the value of the
\* last entry of others that sets it (nil entries are skipped), and a field no
\* entry sets holds what the receiver holds, absent staying absent.
C18_LastSetterWins ==
    mergeCall.done =>
        /\ \A f \in DOMAIN Options :
              LET S == Setters(mergeCall.others, f)
              IN  mergeCall.o[f] = IF S = {} THEN mergeCall.recv[f]
                                   ELSE mergeCall.others[Last(S)][f]
        /\ mergeCall.o = Merge(mergeCall.recv, mergeCall.others)

\* a receiver with absent fields, a nil entry, a field set twice with
\* different values, and a field nobody sets
C18_Witness ==
    /\ mergeCall.done
    /\ mergeCall.recv = Opt1
    /\ mergeCall.others = <<OptGrow, NilOption, OptWarm>>
    /\ mergeCall.o.CalibratedSz = 8 /\ mergeCall.o.CalibratePeriod = 1
    /\ mergeCall.o.MinSize = 4

----------------------------------------------------------------------------
(* Claims about the sharded pool *)

\* C19: between calls min_idle <= current_max <= max_idle_limit and the idle
\* stack is no longer than current_max, for every argument triple of the
\* constructor.
C19_ShardBounds ==
    /\ minIdle <= currentMax
    /\ currentMax <= maxIdleLimit
    /\ Len(shardIdle) <= currentMax

\* the step is a Get: only Get counts one more
IsShardGet == getCount' = getCount + 1

\* the positions of the entries younger than scale_interval
FreshAt(stack, t) == {i \in 1..Len(stack) : t - stack[i].lastUse < scaleInterval}

\* C20: Get returns an idle entry only if its age is below scale_interval:
\* the topmost such entry; the entries above it are dropped and never come
\* back, in the stack or in a caller's hands; and when the stack has no fresh
\* entry Get returns a T made on the spot and leaves the stack empty.
C20_StaleNeverReturned ==
    /\ [](lastGet.got = "hit" => lastGet.age < scaleInterval)
    /\ [](shardDropped \cap (shardOut \cup Objs(shardIdle)) = {})
    /\ [][IsShardGet =>
            LET F == FreshAt(shardIdle, now) IN
            IF F = {}
            THEN /\ lastGet'.got = "made"
                 /\ lastGet'.obj \notin Objs(shardIdle) \cup shardOut \cup shardDropped
                 /\ shardIdle' = << >>
                 /\ Objs(shardIdle) \subseteq shardDropped'
            ELSE /\ lastGet'.got = "hit"
                 /\ lastGet'.obj = shardIdle[Last(F)].obj
                 /\ lastGet'.age = now - shardIdle[Last(F)].lastUse
                 /\ shardIdle' = SubSeq(shardIdle, 1, Last(F) - 1)
                 /\ \A i \in (Last(F) + 1)..Len(shardIdle) :
                        shardIdle[i].obj \in shardDropped']_vars

\* a Get has just found one entry, stale, dropped it and made a new T
C20_Witness ==
    /\ lastGet = [got |-> "made", obj |-> 2]
    /\ shardDropped = {1}
    /\ shardOut = {2}
    /\ shardIdle = << >>
    /\ lastScale = 0

----------------------------------------------------------------------------
(* Resizing a shard *)

\* a step that is a Put on the modelled shard
IsShardPut == activeCount' = activeCount - 1

\* the rule of resizing, in tenths and fifths: the limit a resize at hit
\* rate hit/get leaves behind
Resized(cm, hit, get) ==
    IF get > 0 /\ 5 * hit > 4 * get /\ cm < maxIdleLimit
    THEN IF (12 * cm) \div 10 < maxIdleLimit THEN (12 * cm) \div 10 ELSE maxIdleLimit
    ELSE IF (get = 0 \/ 5 * hit < get) /\ cm > minIdle
    THEN IF (8 * cm) \div 10 > minIdle THEN (8 * cm) \div 10 ELSE minIdle
    ELSE cm

\* C21: a Put less than scaleInterval after lastScale leaves lastScale, the
\* counters, currentMax and the entries of the stack alone; any other Put
\* sets lastScale to the time of the call, zeroes hitCount and getCount and
\* sets currentMax to min(floor(1.2 currentMax), maxIdleLimit) when the hit
\* rate is above 0.8 and currentMax below the limit, to
\* max(floor(0.8 currentMax), minIdle) when the hit rate is below 0.2 and
\* currentMax above minIdle, and leaves it otherwise; from 8 under a limit
\* of 64 and a hit rate above 0.8 the result is 9
C21_ResizeRule ==
    /\ [][IsShardPut /\ now - lastScale < scaleInterval
            => /\ UNCHANGED <<lastScale, hitCount, getCount, currentMax>>
               /\ SubSeq(shardIdle', 1, Len(shardIdle)) = shardIdle]_vars
    /\ [][IsShardPut /\ now - lastScale >= scaleInterval
            => /\ lastScale' = now
               /\ hitCount' = 0
               /\ getCount' = 0
               /\ currentMax' = Resized(currentMax, hitCount, getCount)]_vars
    /\ [][(/\ IsShardPut /\ now - lastScale >= scaleInterval
           /\ currentMax = 8 /\ maxIdleLimit = 64
           /\ getCount > 0 /\ 5 * hitCount > 4 * getCount)
            => currentMax' = 9]_vars

\* the first resize of a pool built with maxIdle 8 and limit 64 came at a hit
\* rate above 0.8 and left 9
C21_Witness ==
    /\ maxIdle = 8 /\ maxIdleLimit = 64
    /\ lastScale = scaleInterval
    /\ now = scaleInterval
    /\ currentMax = 9

\* C22: when a shrink leaves currentMax below the number of stacked entries,
\* the entries that stay are the ones released last
C22_ShrinkKeepsNewest ==
    [][IsShardPut /\ currentMax' < currentMax /\ Len(shardIdle) > currentMax'
         => shardIdle' = SubSeq(shardIdle, Len(shardIdle) - currentMax' + 1,
                                Len(shardIdle))]_vars

\* C29: activeCount is never negative and counts the T's this shard handed
\* out that have not been put back, whichever shard they were put to
C29_ActiveCountExact ==
    /\ activeCount >= 0
    /\ activeCount = Cardinality(shardOut)

----------------------------------------------------------------------------
(* The spin lock and the first version's Bytes *)

\* the goroutines between a Lock that returned and their Unlock
Holders == {t \in Threads : lockPc[t] = "in"}

\* C23: at most one goroutine is between a Lock that returned and its Unlock,
\* and a Lock returns only in a step that finds the lock word free and
\* leaves it held
C23_MutualExclusion ==
    /\ [](Cardinality(Holders) <= 1)
    /\ [](sl = 0 <=> Holders = {})
    /\ [][\A t \in Threads :
            lockPc[t] # "in" /\ lockPc'[t] = "in" => sl = 0 /\ sl' = 1]_vars

\* g1 holds the lock and g2 has used up its bounded turns waiting for it
C23_Witness ==
    /\ lockPc["g1"] = "in"
    /\ lockPc["g2"] = "retry"
    /\ sl = 1

\* C24: no slice returned by Bytes() shares a backing array with a *buffer,
\* and its contents stay as they were returned whatever is written later
C24_BytesIsCopy ==
    \A i \in 1..Len(legacySlices) :
        LET s == legacySlices[i] IN
            /\ SubSeq(legacyMem[s.store], 1, s.len) = s.was
            /\ \A n \in 1..Len(legacyBuf) : legacyBuf[n].store # s.store

\* g1 took the bytes <<1>> of a *buffer and released it, g2 got the same
\* *buffer and wrote 2 over the 1
C24_Witness ==
    \E i \in 1..Len(legacySlices) :
        LET s == legacySlices[i] IN
            /\ s.by = "g1"
            /\ s.was = <<1>>
            /\ legacyHeld["g2"] = s.of
            /\ legacyBuf[s.of].len = 1
            /\ legacyMem[legacyBuf[s.of].store][1] = 2

----------------------------------------------------------------------------
(* The arithmetic of calibrate, probed: every size from 4 to 64 against
   every peak a caller can leave *)

\* v brought into [minSize, maxSize]
Clamped(v) == IF v < minSize THEN minSize ELSE IF v > maxSize THEN maxSize ELSE v

\* the store of a calibrate of the probed pool: calibratedSz is the size it
\* read, newMax["g1"] the peak after the bounds check
ProbeStores == traffic = "probe" /\ CalibrateStores

\* C25 as stated: the stored size is the clamped integer part of
\* (0.4 old + 0.6 m) * 1.05 when the peak m is above the old size, of
\* 0.9 old + 0.1 m otherwise
C25_OneTruncation ==
    [][ProbeStores =>
        LET old == calibratedSz
            m == newMax["g1"]
        IN  calibratedSz' = Clamped(IF m > old
                                    THEN ((4 * old + 6 * m) * 105) \div 1000
                                    ELSE (9 * old + m) \div 10)]_vars

\* C25: the stored size is the clamped integer part of 1.05 k when the peak
\* m is above the old size, k being the integer part of 0.4 old + 0.6 m or,
\* only where that sum is a whole number, one less; and the clamped integer
\* part of 0.9 old + 0.1 m otherwise
C25_TwoTruncations ==
    [][ProbeStores =>
        LET old == calibratedSz
            m == newMax["g1"]
            k == (4 * old + 6 * m) \div 10
        IN  IF m > old
            THEN \/ calibratedSz' = Clamped((105 * k) \div 100)
                 \/ /\ (4 * old + 6 * m) % 10 = 0
                    /\ calibratedSz' = Clamped((105 * (k - 1)) \div 100)
            ELSE calibratedSz' = Clamped((9 * old + m) \div 10)]_vars

\* from size 4 a peak of 15 was calibrated to 10: 10.6 cut to 10, 10.5 cut
\* to 10, where (1.6 + 9) * 1.05 = 11.13
C25_Witness ==
    /\ traffic = "probe" /\ probeUsed = 15 /\ initialSz = 4
    /\ calibrated(1)
    /\ calibratedSz = 10

----------------------------------------------------------------------------
(* Recording the peak *)

\* C27: a Put with used above the size it loaded goes on to the update of
\* maxUsage; one with used above minSize and not above that size goes on to
\* it exactly when calls, read before the Put's own tick, has its low four
\* bits zero; one with used neither above minSize nor above that size goes
\* straight to the tick; and the update changes maxUsage only by raising it
\* to used
C27_PeakRecording ==
    /\ [][\A t \in Threads :
            pc[t] \in {"held", "idle"} /\ pc'[t] \in {"loadMax", "sample", "tick"}
              => LET u == statFunc(kind, b'[t])[1]
                     cur == currentSz'[t]
                 IN  pc'[t] = IF u > cur THEN "loadMax"
                              ELSE IF u > minSize THEN "sample"
                              ELSE "tick"]_vars
    /\ [][\A t \in Threads :
            pc[t] = "sample" /\ pc'[t] # "sample"
              => pc'[t] = IF calls % 16 = 0 THEN "loadMax" ELSE "tick"]_vars
    /\ [][\A t \in Threads :
            pc[t] \notin {"loadMax", "casMax"} => pc'[t] # "casMax"]_vars
    /\ [][maxUsage' # maxUsage
            => \/ \E t \in Threads : pc[t] = "calReset" /\ pc'[t] # "calReset"
                                     /\ maxUsage' = 0
               \/ \E t \in Threads : /\ pc[t] = "casMax" /\ pc'[t] = "tick"
                                     /\ maxUsage' = used(t)
                                     /\ maxUsage' > maxUsage]_vars

\* g1's Put, with used above minSize and not above the size it loaded, is at
\* its tick without having recorded anything: calls was not a multiple of 16
C27_Witness ==
    /\ pc["g1"] = "tick" /\ pc["g2"] = "idle"
    /\ minSize < used("g1") /\ used("g1") <= currentSz["g1"]
    /\ calls % 16 # 0
    /\ maxUsage = 0 /\ calibrations = 0

\* a calibrate of the probed pool returns, from its store or from the test
\* for an idle window
ProbeCalibrated == traffic = "probe" /\ pc["g1"] \in CalPcs /\ pc'["g1"] = "finish"

\* C28: while every Put leaves the same used = u and calibratedSz is above
\* max(u, minSize), every calibration lowers calibratedSz, also when u is
\* not above minSize
C28_ContractionLive ==
    [][ProbeCalibrated /\ calibratedSz > Max(probeUsed, minSize)
         => calibratedSz' < calibratedSz]_vars

----------------------------------------------------------------------------
(* Ownership, in either engine *)

\* the goroutines that hold a T of the EMA pool: from Get to the end of Put
Holding == {t \in Threads : b[t].id >= 1}

\* C30: no T is held by two callers and no T is twice in an idle store.  EMA
\* pool: the T's two goroutines hold differ, a pooled T is held by nobody,
\* the pooled T's differ.  Sharded pool: the stacked T's differ, none of them
\* is with a caller, and no Get hands out a T that a caller holds.
C30_ExclusiveOwnership ==
    /\ [](\A t, u \in Holding : t # u => b[t].id # b[u].id)
    /\ [](\A o \in idle : \A t \in Holding : o.id # b[t].id)
    /\ [](\A o, q \in idle : o # q => o.id # q.id)
    /\ [](\A i, j \in 1..Len(shardIdle) : i # j => shardIdle[i].obj # shardIdle[j].obj)
    /\ [](shardOut \cap Objs(shardIdle) = {})
    /\ [][IsShardGet => lastGet'.obj \notin shardOut]_vars

\* EMA pool: both goroutines hold a T, one of them a T that has been through
\* the pool
C30_Witness ==
    /\ kind = "bytes"
    /\ pc["g1"] = "held" /\ pc["g2"] = "held"
    /\ putsDone >= 1
    /\ nextId = 3
    /\ idle = {}

----------------------------------------------------------------------------
(* Progress *)

\* C33: every resize past the interval at a hit rate above 0.8 with
\* currentMax below maxIdleLimit leaves currentMax strictly larger
C33_GrowthProgress ==
    [][(/\ IsShardPut /\ now - lastScale >= scaleInterval
        /\ getCount > 0 /\ 5 * hitCount > 4 * getCount
        /\ currentMax < maxIdleLimit)
         => currentMax' > currentMax]_vars

\* the goroutines inside Lock
Waiters == {t \in Threads : lockPc[t] \in {"spin", "retry"}}

\* a Lock returns
Acquire == sl = 0 /\ sl' = 1

\* C34: when the lock is free and a goroutine is inside Lock, some Lock
\* returns; and if goroutines are inside Lock again and again, the lock is
\* taken again and again
C34_DeadlockFree ==
    /\ (sl = 0 /\ Waiters # {}) ~> (Holders # {})
    /\ (Waiters # {}) ~> (sl = 0)
    /\ ([]<>(Waiters # {})) => []<><<Acquire>>_vars

\* the lock has been released while g1, out of bounded turns, is still
\* inside Lock
C34_Witness ==
    /\ sl = 0
    /\ lockPc["g1"] = "retry"
    /\ lockPc["g2"] = "out"

----------------------------------------------------------------------------
(* The ring pool under concurrent Get and Put *)

RingBuilt == curCap > 0

\* the part of C31 about the fields: with the lock free the capacity lies
\* between its limits and the count between 0 and the capacity
RingFieldsInRange ==
    (RingBuilt /\ ringMu = "free" /\ ringPanic = "none")
        => /\ minCap <= curCap /\ curCap <= maxCap
           /\ 0 <= count /\ count <= curCap

\* C31: in every interleaving of Get and Put the capacity stays between
\* minCap and maxCap and the count between 0 and the capacity whenever the
\* lock is free, and resize never copies more entries than the new buffer
\* has room for
C31_RingWithinBounds == RingFieldsInRange /\ ringPanic # "resize"

\* the store of line 91 stays inside the buffer
RingPutInRange == ringPanic # "Put"

\* C32: whenever autoScale has loaded a non-zero getCount and reads hitCount,
\* the hits do not exceed the gets, so the hit rate is at most 1
C32_HitsWithinGets ==
    \A t \in Threads :
        (ringPc[t] = "scale" /\ total[t] > 0) => ringHit <= total[t]

====
